---- MODULE Spec2Model ----
(***************************************************************************)
(* src/coreclr/gc/gc_typefields.h: the X-macro field table of the GC heap  *)
(* structure.  The includer defines the DEFINE_* macros and a subset of    *)
(* the switches ALL_FIELDS, BACKGROUND_GC, USE_REGIONS, then includes the  *)
(* file; the preprocessor walks it line by line with a conditional stack   *)
(* and every DEFINE_* line of an included group appends one descriptor to  *)
(* the table that the includer builds.                                     *)
(***************************************************************************)
EXTENDS Integers, Sequences, FiniteSets, TLC

VARIABLES cfg, pc, stack, table

vars == <<cfg, pc, stack, table>>

\* ---------------------------------------------------------------- switches
ALL_FIELDS == "ALL_FIELDS"
BACKGROUND_GC == "BACKGROUND_GC"
USE_REGIONS == "USE_REGIONS"

Switches == {ALL_FIELDS, BACKGROUND_GC, USE_REGIONS}

\* a configuration is the set of switches the includer has #defined
Configurations == SUBSET Switches

\* ------------------------------------------------------------ source lines
FieldLine(n, t) ==
    [op |-> "DEFINE_FIELD", name |-> n, type |-> t, extent |-> "", cond |-> {}]

DPtrLine(n, t) ==
    [op |-> "DEFINE_DPTR_FIELD", name |-> n, type |-> t, extent |-> "", cond |-> {}]

ArrayLine(n, t, e) ==
    [op |-> "DEFINE_ARRAY_FIELD", name |-> n, type |-> t, extent |-> e, cond |-> {}]

MissingLine ==
    [op |-> "DEFINE_MISSING_FIELD", name |-> "", type |-> "", extent |-> "", cond |-> {}]

\* #if lit1 || lit2 ...: a literal <<m, TRUE>> is defined(m), <<m, FALSE>> is !defined(m)
IfLine(c) ==
    [op |-> "#if", name |-> "", type |-> "", extent |-> "", cond |-> c]

ElseLine ==
    [op |-> "#else", name |-> "", type |-> "", extent |-> "", cond |-> {}]

EndifLine ==
    [op |-> "#endif", name |-> "", type |-> "", extent |-> "", cond |-> {}]

\* lines 1..12 with two neighbouring declarations exchanged
UnconditionalFieldsExchanged ==
    <<
       FieldLine("alloc_allocated", "uint8_t*"),
       DPtrLine("ephemeral_heap_segment", "dac_heap_segment"),
       DPtrLine("finalize_queue", "dac_finalize_queue"),
       FieldLine("oom_info", "oom_history"),
       ArrayLine("interesting_data_per_heap", "size_t", "NUM_GC_DATA_POINTS"),
       ArrayLine("compact_reasons_per_heap", "size_t", "MAX_COMPACT_REASONS_COUNT"),
       ArrayLine("expand_mechanisms_per_heap", "size_t", "MAX_EXPAND_MECHANISMS_COUNT"),
       ArrayLine("interesting_mechanism_bits_per_heap", "size_t", "MAX_GC_MECHANISM_BITS_COUNT"),
       FieldLine("internal_root_array_index", "size_t"),
       FieldLine("internal_root_array", "uint8_t*"),
       FieldLine("heap_analyze_success", "BOOL"),
       FieldLine("card_table", "uint32_t*") >>

\* lines 1..12: the declarations outside every conditional
UnconditionalFields ==
    <<
       FieldLine("alloc_allocated", "uint8_t*"),
       DPtrLine("ephemeral_heap_segment", "dac_heap_segment"),
       DPtrLine("finalize_queue", "dac_finalize_queue"),
       FieldLine("oom_info", "oom_history"),
       ArrayLine("interesting_data_per_heap", "size_t", "NUM_GC_DATA_POINTS"),
       ArrayLine("compact_reasons_per_heap", "size_t", "MAX_COMPACT_REASONS_COUNT"),
       ArrayLine("expand_mechanisms_per_heap", "size_t", "MAX_EXPAND_MECHANISMS_COUNT"),
       ArrayLine("interesting_mechanism_bits_per_heap", "size_t", "MAX_GC_MECHANISM_BITS_COUNT"),
       FieldLine("internal_root_array", "uint8_t*"),
       FieldLine("internal_root_array_index", "size_t"),
       FieldLine("heap_analyze_success", "BOOL"),
       FieldLine("card_table", "uint32_t*") >>

\* lines 13..32 with the last placeholder of the outer #else arm forgotten
BackgroundBlockDroppedPlaceholder ==
    <<
       IfLine({<<ALL_FIELDS, TRUE>>, <<BACKGROUND_GC, TRUE>>}),
       FieldLine("mark_array", "uint32_t*"),
       FieldLine("next_sweep_obj", "uint8_t*"),
       FieldLine("background_saved_lowest_address", "uint8_t*"),
       FieldLine("background_saved_highest_address", "uint8_t*"),
       IfLine({<<ALL_FIELDS, TRUE>>, <<USE_REGIONS, FALSE>>}),
       DPtrLine("saved_sweep_ephemeral_seg", "dac_heap_segment"),
       FieldLine("saved_sweep_ephemeral_start", "uint8_t*"),
       ElseLine,
       MissingLine,
       MissingLine,
       EndifLine,
       ElseLine,
       MissingLine,
       MissingLine,
       MissingLine,
       MissingLine,
       MissingLine,
       EndifLine >>

\* lines 13..32 with saved_sweep_ephemeral_start kept real in the nested
\* #else arm, in the slot of saved_sweep_ephemeral_seg
BackgroundBlockShiftedField ==
    <<
       IfLine({<<ALL_FIELDS, TRUE>>, <<BACKGROUND_GC, TRUE>>}),
       FieldLine("mark_array", "uint32_t*"),
       FieldLine("next_sweep_obj", "uint8_t*"),
       FieldLine("background_saved_lowest_address", "uint8_t*"),
       FieldLine("background_saved_highest_address", "uint8_t*"),
       IfLine({<<ALL_FIELDS, TRUE>>, <<USE_REGIONS, FALSE>>}),
       DPtrLine("saved_sweep_ephemeral_seg", "dac_heap_segment"),
       FieldLine("saved_sweep_ephemeral_start", "uint8_t*"),
       ElseLine,
       FieldLine("saved_sweep_ephemeral_start", "uint8_t*"),
       MissingLine,
       EndifLine,
       ElseLine,
       MissingLine,
       MissingLine,
       MissingLine,
       MissingLine,
       MissingLine,
       MissingLine,
       EndifLine >>

\* lines 13..32: the block guarded by ALL_FIELDS || BACKGROUND_GC and, nested
\* in its first arm, the block guarded by ALL_FIELDS || !USE_REGIONS
BackgroundBlock ==
    <<
       IfLine({<<ALL_FIELDS, TRUE>>, <<BACKGROUND_GC, TRUE>>}),
       FieldLine("mark_array", "uint32_t*"),
       FieldLine("next_sweep_obj", "uint8_t*"),
       FieldLine("background_saved_lowest_address", "uint8_t*"),
       FieldLine("background_saved_highest_address", "uint8_t*"),
       IfLine({<<ALL_FIELDS, TRUE>>, <<USE_REGIONS, FALSE>>}),
       DPtrLine("saved_sweep_ephemeral_seg", "dac_heap_segment"),
       FieldLine("saved_sweep_ephemeral_start", "uint8_t*"),
       ElseLine,
       MissingLine,
       MissingLine,
       EndifLine,
       ElseLine,
       MissingLine,
       MissingLine,
       MissingLine,
       MissingLine,
       MissingLine,
       MissingLine,
       EndifLine >>

\* Lines[i] is line i of gc_typefields.h
Lines == UnconditionalFields \o BackgroundBlock

NumLines == Len(Lines)

\* ------------------------------------------------------------ preprocessor
\* a conjunction in place of the || of the guard
EvalCondAllLiterals(cond, c) ==
    \A lit \in cond : (lit[1] \in c) = lit[2]

\* defined(A) || !defined(B): true when some literal holds in configuration c
EvalCond(cond, c) ==
    \E lit \in cond : (lit[1] \in c) = lit[2]

\* the current group is included when no enclosing conditional skips it
Active(stk) ==
    IF stk = <<>> THEN TRUE ELSE Head(stk).active

\* frame pushed by #if; start is the table length on entry to the block
IfFrame(cond, c, stk, len) ==
    [active |-> Active(stk) /\ EvalCond(cond, c),
     taken  |-> ~Active(stk) \/ EvalCond(cond, c),
     start  |-> len]

\* an #else that leaves the group included after the first arm was taken
ElseFrameBothArms(f) ==
    [f EXCEPT !.active = TRUE, !.taken = TRUE]

\* #else: the second arm is included only when no earlier arm was
ElseFrame(f) ==
    [f EXCEPT !.active = ~f.taken, !.taken = TRUE]

\* the descriptor a DEFINE_* line expands to
Descriptor(line) ==
    [kind |-> line.op, name |-> line.name, type |-> line.type, extent |-> line.extent]

MissingField == Descriptor(MissingLine)

IsDefine(line) ==
    line.op \in {"DEFINE_FIELD", "DEFINE_DPTR_FIELD", "DEFINE_ARRAY_FIELD",
                 "DEFINE_MISSING_FIELD"}

StepStack(line, c, stk, tbl) ==
    CASE line.op = "#if"    -> <<IfFrame(line.cond, c, stk, Len(tbl))>> \o stk
      [] line.op = "#else"  -> <<ElseFrame(Head(stk))>> \o Tail(stk)
      [] line.op = "#endif" -> Tail(stk)
      [] OTHER              -> stk

StepTable(line, stk, tbl) ==
    IF IsDefine(line) /\ Active(stk) THEN Append(tbl, Descriptor(line)) ELSE tbl

RECURSIVE Preprocess(_, _, _, _)
Preprocess(c, p, stk, tbl) ==
    IF p > NumLines THEN tbl
    ELSE Preprocess(c, p + 1, StepStack(Lines[p], c, stk, tbl),
                    StepTable(Lines[p], stk, tbl))

\* the table an includer built with configuration c obtains
FieldTable(c) == Preprocess(c, 1, <<>>, <<>>)

\* ------------------------------------------------------------------ machine
Init ==
    /\ cfg \in Configurations
    /\ pc = 1
    /\ stack = <<>>
    /\ table = <<>>

AtLine == pc <= NumLines

Advance ==
    /\ pc' = pc + 1
    /\ stack' = StepStack(Lines[pc], cfg, stack, table)
    /\ table' = StepTable(Lines[pc], stack, table)
    /\ UNCHANGED cfg

DEFINE_FIELD ==
    /\ AtLine /\ Lines[pc].op = "DEFINE_FIELD" /\ Active(stack)
    /\ Advance

DEFINE_DPTR_FIELD ==
    /\ AtLine /\ Lines[pc].op = "DEFINE_DPTR_FIELD" /\ Active(stack)
    /\ Advance

DEFINE_ARRAY_FIELD ==
    /\ AtLine /\ Lines[pc].op = "DEFINE_ARRAY_FIELD" /\ Active(stack)
    /\ Advance

DEFINE_MISSING_FIELD ==
    /\ AtLine /\ Lines[pc].op = "DEFINE_MISSING_FIELD" /\ Active(stack)
    /\ Advance

\* a text line of a skipped group expands to nothing
SkippedLine ==
    /\ AtLine /\ IsDefine(Lines[pc]) /\ ~Active(stack)
    /\ Advance

If ==
    /\ AtLine /\ Lines[pc].op = "#if"
    /\ Advance

Else ==
    /\ AtLine /\ Lines[pc].op = "#else"
    /\ Advance

Endif ==
    /\ AtLine /\ Lines[pc].op = "#endif"
    /\ Advance

Next ==
    \/ DEFINE_FIELD
    \/ DEFINE_DPTR_FIELD
    \/ DEFINE_ARRAY_FIELD
    \/ DEFINE_MISSING_FIELD
    \/ SkippedLine
    \/ If
    \/ Else
    \/ Endif

Spec == Init /\ [][Next]_vars

Done == pc = NumLines + 1

\* ------------------------------------------------------------- vocabulary
IsReal(d) == d.kind # "DEFINE_MISSING_FIELD"

IsNamed(line) == line.name # ""

\* the field declarations of the file, in source order
Decls == SelectSeq(Lines, IsNamed)

\* number of field declarations on the lines before line p
DeclsBefore(p) == Len(SelectSeq(SubSeq(Lines, 1, p - 1), IsNamed))

\* ordinals are counted from 0, sequences from 1
Slot(t, i) == t[i + 1]

PlaceholderOrdinals(t) == {i \in 0..(Len(t) - 1) : ~IsReal(Slot(t, i))}

RealNames(t, lo, hi) == [i \in lo..hi |-> IF IsReal(Slot(t, i)) THEN Slot(t, i).name ELSE "-"]

Scenario1Cfg == {ALL_FIELDS, BACKGROUND_GC}
Scenario2Cfg == {ALL_FIELDS, BACKGROUND_GC, USE_REGIONS}

BackgroundNames ==
    [i \in 12..15 |-> <<"mark_array", "next_sweep_obj", "background_saved_lowest_address",
                        "background_saved_highest_address">>[i - 11]]

LegacyNames ==
    [i \in 16..17 |-> <<"saved_sweep_ephemeral_seg", "saved_sweep_ephemeral_start">>[i - 15]]

NoNames(lo, hi) == [i \in lo..hi |-> "-"]

\* ------------------------------------------------------------------ claims

\* C1: ordinal invariance.  The finished table has 18 slots (12 unconditional
\* + 4 background + 2 region/legacy) and the table of each of the 8
\* configurations has that same length.
C1_OrdinalInvariance ==
    Done => /\ Len(table) = 12 + 4 + 2
            /\ table = FieldTable(cfg)
            /\ \A c \in Configurations : Len(FieldTable(c)) = Len(table)

C1_Witness ==
    Done /\ cfg = {USE_REGIONS} /\ Len(table) = 18 /\ Len(FieldTable(Switches)) = 18

\* C2: positional identity.  At every ordinal, the slot of the finished table
\* and the slot of any other configuration's table are the same descriptor
\* unless one of them is a placeholder; a field that is real in both tables
\* has the same ordinal in both.
C2_PositionalIdentity ==
    Done => \A c \in Configurations :
              LET t == FieldTable(c) IN
              /\ \A i \in 1..Len(table) :
                    i <= Len(t) => \/ table[i] = t[i]
                                   \/ ~IsReal(table[i])
                                   \/ ~IsReal(t[i])
              /\ \A i \in 1..Len(table) : \A j \in 1..Len(t) :
                    (IsReal(table[i]) /\ IsReal(t[j]) /\ table[i].name = t[j].name)
                        => i = j

C2_Witness ==
    /\ Done /\ cfg = {BACKGROUND_GC, USE_REGIONS}
    /\ ~IsReal(Slot(table, 16))
    /\ IsReal(Slot(FieldTable({BACKGROUND_GC}), 16))
    /\ Slot(table, 15) = Slot(FieldTable({BACKGROUND_GC}), 15)

\* C3: placeholder completeness.  Slot k of the table is the descriptor of
\* the k-th declaration or one placeholder for it; when the walk is about to
\* expand a declaration, the table holds one slot for each declaration before
\* it; in the finished table each of the six guarded declarations has exactly
\* one descriptor, real or placeholder, and the table has one slot per
\* declaration.
C3_PlaceholderCompleteness ==
    /\ Len(table) <= Len(Decls)
    /\ \A k \in 1..Len(table) :
          k <= Len(Decls) => table[k] \in {Descriptor(Decls[k]), MissingField}
    /\ (AtLine /\ IsNamed(Lines[pc]) /\ Active(stack)) => Len(table) = DeclsBefore(pc)
    /\ (AtLine /\ stack = <<>>) => Len(table) = DeclsBefore(pc)
    /\ Done => /\ Len(table) = Len(Decls)
               /\ \A d \in 13..Len(Decls) :
                     Cardinality({k \in 1..Len(table) : table[k] = Descriptor(Decls[d])})
                       + (IF d <= Len(table) /\ table[d] = MissingField THEN 1 ELSE 0) = 1

C3_Witness ==
    /\ Done /\ cfg = {BACKGROUND_GC, USE_REGIONS}
    /\ Slot(table, 12) = Descriptor(Decls[13])
    /\ Slot(table, 17) = MissingField
    /\ Len(table) = 18

\* C4: scenario 1.  With ALL_FIELDS and BACKGROUND_GC defined and USE_REGIONS
\* not, the four background fields and the two region-dependent fields are
\* real and the table has no placeholder.
C4_Scenario1 ==
    (Done /\ cfg = Scenario1Cfg) =>
        /\ Len(table) = 18
        /\ RealNames(table, 12, 15) = BackgroundNames
        /\ RealNames(table, 16, 17) = LegacyNames
        /\ PlaceholderOrdinals(table) = {}

C4_Witness ==
    Done /\ cfg = Scenario1Cfg /\ Slot(table, 17).name = "saved_sweep_ephemeral_start"

\* C5 as stated: scenario 2.  With all three switches defined the table is as
\* long as in scenario 1 and the two region-dependent slots are placeholders.
C5_Scenario2_Original ==
    (Done /\ cfg = Scenario2Cfg) =>
        /\ Len(table) = Len(FieldTable(Scenario1Cfg))
        /\ ~IsReal(Slot(table, 16))
        /\ ~IsReal(Slot(table, 17))

\* C5 amended: with all three switches defined the table is as long as in
\* scenario 1 and the two region-dependent slots are real, ALL_FIELDS
\* including them; they are placeholders, after four real background fields,
\* when BACKGROUND_GC and USE_REGIONS are defined and ALL_FIELDS is not.
C5_Scenario2 ==
    /\ (Done /\ cfg = Scenario2Cfg) =>
          /\ Len(table) = Len(FieldTable(Scenario1Cfg))
          /\ RealNames(table, 16, 17) = LegacyNames
    /\ (Done /\ cfg = {BACKGROUND_GC, USE_REGIONS}) =>
          /\ Len(table) = Len(FieldTable(Scenario1Cfg))
          /\ RealNames(table, 12, 15) = BackgroundNames
          /\ RealNames(table, 16, 17) = NoNames(16, 17)

C5_Witness ==
    Done /\ cfg = Scenario2Cfg /\ IsReal(Slot(table, 16)) /\ IsReal(Slot(table, 17))

\* C6 as stated: scenario 3.  With ALL_FIELDS defined and BACKGROUND_GC not,
\* for either value of USE_REGIONS, the four background slots and the two
\* nested slots are placeholders and the length is that of scenarios 1 and 2.
C6_Scenario3_Original ==
    (Done /\ ALL_FIELDS \in cfg /\ BACKGROUND_GC \notin cfg) =>
        /\ Len(table) = Len(FieldTable(Scenario1Cfg))
        /\ Len(table) = Len(FieldTable(Scenario2Cfg))
        /\ RealNames(table, 12, 17) = NoNames(12, 17)

\* C6 amended: with neither ALL_FIELDS nor BACKGROUND_GC defined, for either
\* value of USE_REGIONS, the six slots are placeholders; with ALL_FIELDS
\* defined and BACKGROUND_GC not, the six slots are real; in both cases the
\* length is that of scenarios 1 and 2.
C6_Scenario3 ==
    /\ (Done /\ ALL_FIELDS \notin cfg /\ BACKGROUND_GC \notin cfg) =>
          /\ Len(table) = Len(FieldTable(Scenario1Cfg))
          /\ Len(table) = Len(FieldTable(Scenario2Cfg))
          /\ RealNames(table, 12, 17) = NoNames(12, 17)
    /\ (Done /\ ALL_FIELDS \in cfg /\ BACKGROUND_GC \notin cfg) =>
          /\ Len(table) = Len(FieldTable(Scenario1Cfg))
          /\ Len(table) = Len(FieldTable(Scenario2Cfg))
          /\ RealNames(table, 12, 15) = BackgroundNames
          /\ RealNames(table, 16, 17) = LegacyNames

C6_Witness ==
    \/ Done /\ cfg = {USE_REGIONS} /\ PlaceholderOrdinals(table) = 12..17
    \/ Done /\ cfg = {ALL_FIELDS} /\ PlaceholderOrdinals(table) = {} /\ Len(table) = 18

\* C7 as stated: with USE_REGIONS and ALL_FIELDS both defined the build stops
\* with an error: no descriptor is produced and the walk is never completed.
C7_ContradictoryFailsFast_Original ==
    (ALL_FIELDS \in cfg /\ USE_REGIONS \in cfg) => (table = <<>> /\ ~Done)

\* C7 amended: with USE_REGIONS and ALL_FIELDS both defined the walk never
\* stops before the end of the file, and it ends with a table of 18 slots in
\* which ALL_FIELDS has won: the two legacy-segment fields are real.
C7_AllFieldsWins ==
    (ALL_FIELDS \in cfg /\ USE_REGIONS \in cfg) =>
        /\ ~Done => ENABLED Next
        /\ Done => /\ Len(table) = 18
                   /\ RealNames(table, 16, 17) = LegacyNames

C7_Witness ==
    /\ Done /\ cfg = {ALL_FIELDS, USE_REGIONS}
    /\ Len(table) = 18
    /\ Slot(table, 16).name = "saved_sweep_ephemeral_seg"

\* C8: branch-balanced nesting.  At its #else and at its #endif, the block
\* guarded by ALL_FIELDS || BACKGROUND_GC has contributed 6 slots from the arm
\* that was included (4 real and the 2 of the nested block, or 6
\* placeholders), and the nested block guarded by ALL_FIELDS || !USE_REGIONS,
\* where its enclosing arm is included, 2 slots (2 real or 2 placeholders); a
\* suppressed outer block contributes 6 whatever the nested condition is.
C8_BranchBalanced ==
    /\ (AtLine /\ Lines[pc].op = "#else" /\ Len(stack) = 1) =>
          Len(table) - stack[1].start = IF stack[1].active THEN 6 ELSE 0
    /\ (AtLine /\ Lines[pc].op = "#endif" /\ Len(stack) = 1) =>
          /\ Len(table) - stack[1].start = 6
          /\ \/ PlaceholderOrdinals(table) \cap 12..15 = {}
             \/ PlaceholderOrdinals(table) = 12..17
    /\ (AtLine /\ Lines[pc].op = "#else" /\ Len(stack) = 2 /\ stack[2].active) =>
          Len(table) - stack[1].start = IF stack[1].active THEN 2 ELSE 0
    /\ (AtLine /\ Lines[pc].op = "#endif" /\ Len(stack) = 2 /\ stack[2].active) =>
          /\ Len(table) - stack[1].start = 2
          /\ PlaceholderOrdinals(table) \in {{}, {16, 17}}
    /\ (AtLine /\ Len(stack) = 2 /\ ~stack[2].active) =>
          Len(table) = stack[1].start
    /\ Done => \A c \in Configurations :
                  ~EvalCond(Lines[13].cond, c) =>
                      Len(FieldTable(c)) = Len(FieldTable(c \cup {USE_REGIONS}))

C8_Witness ==
    /\ AtLine /\ Lines[pc].op = "#endif" /\ Len(stack) = 1
    /\ cfg = {USE_REGIONS}
    /\ Len(table) - stack[1].start = 6
    /\ stack[1].active /\ stack[1].taken

\* C9: exact placeholder pattern.  Ordinals 12..15 are real iff ALL_FIELDS or
\* BACKGROUND_GC; ordinals 16..17 are real iff that and (ALL_FIELDS or not
\* USE_REGIONS); the placeholder ordinals are {}, {16,17} or {12..17}; with
\* ALL_FIELDS there is no placeholder; the region-dependent fields are never
\* real while the background fields are placeholders.
C9_PlaceholderPattern ==
    Done =>
        LET bg  == ALL_FIELDS \in cfg \/ BACKGROUND_GC \in cfg
            seg == ALL_FIELDS \in cfg \/ USE_REGIONS \notin cfg
        IN  /\ Len(table) = 18
            /\ \A i \in 0..11 : IsReal(Slot(table, i))
            /\ \A i \in 12..15 : IsReal(Slot(table, i)) <=> bg
            /\ \A i \in 16..17 : IsReal(Slot(table, i)) <=> (bg /\ seg)
            /\ PlaceholderOrdinals(table) \in {{}, {16, 17}, 12..17}
            /\ ALL_FIELDS \in cfg => PlaceholderOrdinals(table) = {}
            /\ \A i \in 16..17 : \A j \in 12..15 :
                  IsReal(Slot(table, i)) => IsReal(Slot(table, j))

C9_Witness ==
    Done /\ cfg = {BACKGROUND_GC, USE_REGIONS} /\ PlaceholderOrdinals(table) = {16, 17}

\* C10: the unconditional prefix.  Once the first 12 lines are expanded,
\* ordinals 0..11 hold the 12 unconditional fields in source order, none a
\* placeholder, and they are the same descriptors (name, kind, type) in the
\* table of every configuration.
C10_UnconditionalPrefix ==
    pc > 12 =>
        /\ Len(table) >= 12
        /\ [i \in 0..11 |-> Slot(table, i).name] =
              [i \in 0..11 |->
                 <<"alloc_allocated", "ephemeral_heap_segment", "finalize_queue",
                   "oom_info", "interesting_data_per_heap", "compact_reasons_per_heap",
                   "expand_mechanisms_per_heap", "interesting_mechanism_bits_per_heap",
                   "internal_root_array", "internal_root_array_index",
                   "heap_analyze_success", "card_table">>[i + 1]]
        /\ PlaceholderOrdinals(table) \cap 0..11 = {}
        /\ \A c \in Configurations :
              SubSeq(FieldTable(c), 1, 12) = SubSeq(table, 1, 12)

C10_Witness ==
    /\ Done /\ cfg = {BACKGROUND_GC}
    /\ Slot(table, 11).name = "card_table"
    /\ Slot(table, 8).name = "internal_root_array"
    /\ SubSeq(FieldTable({USE_REGIONS}), 1, 12) = SubSeq(table, 1, 12)

====
